---- MODULE Spec2Model ----
(***************************************************************************)
(* State-machine model of kudu/consensus/raft_consensus_state.cc           *)
(* (QuorumState, ReplicaState, MajorityOpStatusTracker) and of             *)
(* kudu/tablet/ops/participant_op.cc (ParticipantOpState, ParticipantOp).  *)
(* One action per ReplicaState method; a method that needs update_lock_    *)
(* runs atomically, since the lock serialises all of them.  A participant  *)
(* op takes one step per phase, and one more where a phase waits for the   *)
(* transaction's lock or calls into TxnParticipant after releasing it.     *)
(***************************************************************************)
EXTENDS Integers, Sequences, FiniteSets, TLC

\* ------------------------------------------------------------------ bounds
MaxTerm == 1
MaxIndex == 2
MaxSeqno == 1
MaxOps == 2
MaxMajority == 3
MaxTimestamp == 2

\* --------------------------------------------------------------- constants
\* Status codes returned by the methods (kudu/util/status.h names).
StatusOK == "OK"
IllegalState == "IllegalState"
InvalidArgument == "InvalidArgument"
ServiceUnavailable == "ServiceUnavailable"
IOError == "IOError"
AlreadyPresent == "AlreadyPresent"

\* ReplicaState::State
kInitialized == "kInitialized"
kChangingConfig == "kChangingConfig"
kRunning == "kRunning"
kShuttingDown == "kShuttingDown"
kShutDown == "kShutDown"

\* QuorumPeerPB::Role
LEADER == "LEADER"
FOLLOWER == "FOLLOWER"
CANDIDATE == "CANDIDATE"
LEARNER == "LEARNER"
NON_PARTICIPANT == "NON_PARTICIPANT"

\* OperationType of a ReplicateMsg
CHANGE_CONFIG_OP == "CHANGE_CONFIG_OP"
WRITE_OP == "WRITE_OP"

\* peer_uuid_ of this replica, and the other peers of the test quorums
peer_uuid_ == "peer-a"
Uuids == {"peer-a", "peer-b"}

Terms == 0..MaxTerm
Indexes == 0..MaxIndex

\* ------------------------------------------------------------------- OpId
MakeOpId(t, i) == [term |-> t, index |-> i]
OpIds == {MakeOpId(t, i) : t \in Terms, i \in Indexes}
\* A default-constructed OpId message reads term 0, index 0.
DefaultOpId == MakeOpId(0, 0)
\* The out-parameter of a call that hands out no id.
NoOpId == [term |-> -1, index |-> -1]

\* The k-th id of the commit scenarios: (0,2), (1,1), (1,2), (2,1), ...
\* Term order and index order disagree between each id and the next but one.
OpIdOfRank(k) == MakeOpId(k \div 2, (k % 2) + 1)
CommitIds == {OpIdOfRank(k) : k \in 1..MaxOps}

\* OpIdCompare(a, b): negative, zero or positive, term first, then index.
OpIdCompare(a, b) ==
  IF a.term < b.term THEN -1
  ELSE IF a.term > b.term THEN 1
  ELSE IF a.index < b.index THEN -1
  ELSE IF a.index > b.index THEN 1
  ELSE 0

\* ------------------------------------------------------------- QuorumPB
Peer(u, r) == [permanent_uuid |-> u, role |-> r]
PeerLists ==
  { <<Peer("peer-a", LEADER), Peer("peer-b", FOLLOWER)>>,
    <<Peer("peer-a", FOLLOWER), Peer("peer-b", LEADER)>>,
    <<Peer("peer-a", CANDIDATE), Peer("peer-b", FOLLOWER), Peer("peer-c", LEARNER)>> }
MakeQuorum(p, s) == [peers |-> p, seqno |-> s]
Quorums == {MakeQuorum(p, s) : p \in PeerLists, s \in 0..MaxSeqno}
\* pending_quorum_ == NULL
NoQuorum == [peers |-> <<>>, seqno |-> -1]

\* QuorumPB::SerializeAsString: the seqno field, then each peer's fields in order.
SerializeAsString(quorum) ==
  <<quorum.seqno>> \o [i \in 1..Len(quorum.peers) |->
                        <<quorum.peers[i].permanent_uuid, quorum.peers[i].role>>]

\* The last index of `peers` satisfying the test, 0 if none (the loop of
\* QuorumState::Build overwrites, so the last match wins).
LastIndexWhere(peers, Test(_)) ==
  LET hits == {i \in 1..Len(peers) : Test(peers[i])}
  IN IF hits = {} THEN 0 ELSE CHOOSE i \in hits : \A j \in hits : j <= i

IsVoter(peer) == peer.role = LEADER \/ peer.role = FOLLOWER

MajoritySize(n) == (n \div 2) + 1

\* QuorumState::Build(quorum, self_uuid)
Build(quorum, self_uuid) ==
  LET IsSelf(p) == p.permanent_uuid = self_uuid
      IsLeader(p) == p.role = LEADER
      self_idx == LastIndexWhere(quorum.peers, IsSelf)
      leader_idx == LastIndexWhere(quorum.peers, IsLeader)
      voting_peers == {quorum.peers[i].permanent_uuid :
                         i \in {j \in 1..Len(quorum.peers) : IsVoter(quorum.peers[j])}}
  IN [role |-> IF self_idx = 0 THEN NON_PARTICIPANT ELSE quorum.peers[self_idx].role,
      leader_uuid |-> IF leader_idx = 0 THEN "" ELSE quorum.peers[leader_idx].permanent_uuid,
      voting_peers |-> voting_peers,
      majority_size |-> MajoritySize(Cardinality(voting_peers)),
      quorum_size |-> Len(quorum.peers),
      config_seqno |-> quorum.seqno]

\* ------------------------------------------------------------------ state
VARIABLES
  state_,                   \* ReplicaState::state_
  cmeta_,                   \* cmeta_->pb(): the in-memory ConsensusMetadataPB
  disk,                     \* the ConsensusMetadataPB last written by Flush()
  pending_quorum_,          \* pending_quorum_ (NoQuorum when NULL)
  active_quorum_state_,     \* active_quorum_state_
  next_index_,
  received_op_id_,
  replicated_op_id_,
  last_triggered_apply_,
  pending_txns_,            \* OpIdToRoundMap: OpId -> ConsensusRound
  in_flight_commits_,       \* set of OpId
  in_flight_applies_latch_, \* CountDownLatch count
  replicate_watchers_,      \* OpIds with a callback registered in replicate_watchers_
  commit_watchers_,         \* OpIds with a callback registered in commit_watchers_
  aborted,                  \* a CHECK (or, in a debug build, a DCHECK) failed
  call,                     \* the last call that returned: its name and argument
  dcheck_is_on,             \* the build compiles DCHECKs in
  status,                   \* Status returned by the last call
  flushed,                  \* the last call issued cmeta_->Flush()
  triggered,                \* ops whose commit was triggered by the last call, in order
  fired,                    \* OpIds whose watcher callbacks the last call fired
  cancelled,                \* OpIds whose continuation the last call invoked Abort() on
  tracker,                  \* the fields of one MajorityOpStatusTracker
  acked,                    \* the peers that have called AckPeer on it
  txns,                     \* TxnParticipant: txn_id -> Txn (state, commit_op, lock holder)
  ops,                      \* the ParticipantOps: their phase and ParticipantOpState fields
  mvcc,                     \* MvccManager: the ops opened, by the participant op that opened them
  clock,                    \* TimeManager: the last assigned timestamp
  assigned                  \* OpId handed out by the last NewIdUnlocked

vars == <<state_, cmeta_, disk, pending_quorum_, active_quorum_state_, next_index_,
          received_op_id_, replicated_op_id_, last_triggered_apply_, pending_txns_,
          in_flight_commits_, in_flight_applies_latch_, replicate_watchers_,
          commit_watchers_, aborted, dcheck_is_on, call, status, flushed, triggered,
          fired, cancelled, assigned, tracker, acked, txns, ops, mvcc, clock>>

metaVars == <<cmeta_, disk, pending_quorum_, active_quorum_state_>>
logVars == <<next_index_, received_op_id_, replicated_op_id_, last_triggered_apply_>>
txnVars == <<pending_txns_, in_flight_commits_, in_flight_applies_latch_>>
watchVars == <<replicate_watchers_, commit_watchers_>>
replicaVars == <<state_, metaVars, logVars, txnVars, watchVars>>
trackerVars == <<tracker, acked>>
participantVars == <<txns, ops, mvcc, clock>>

\* The argument recorded for a call that takes none.
NoArg == "-"

\* What a call returns and what it invoked: its Status, whether it flushed,
\* the commits it triggered, the id it handed out, the watchers it fired and
\* the continuations it aborted.
Outputs(op, arg, s, f, trig, id, fd, canc) ==
  /\ call' = [op |-> op, arg |-> arg]
  /\ status' = s
  /\ flushed' = f
  /\ triggered' = trig
  /\ assigned' = id
  /\ fired' = fd
  /\ cancelled' = canc

Returns(op, arg, s, f, trig, id) == Outputs(op, arg, s, f, trig, id, <<>>, {})

Return(op, arg, s) == Returns(op, arg, s, FALSE, <<>>, NoOpId)

\* ConsensusMetadataPB as loaded at construction.
InitialPb(q) ==
  [current_term |-> 0, has_voted_for |-> FALSE, voted_for |-> "", committed_quorum |-> q]

\* The fields the constructor sets, other than the metadata it is given.
Constructed(s, pq, ni, recv, repl, lta, ptx, ifc, latch) ==
  /\ s = kInitialized
  /\ pq = NoQuorum
  /\ ni = 0
  /\ recv = DefaultOpId
  /\ repl = DefaultOpId
  /\ lta = DefaultOpId
  /\ ptx = << >>
  /\ ifc = {}
  /\ latch = 0

\* MajorityOpStatusTracker::MajorityOpStatusTracker
NewTracker(voting_peers, majority, total_peers_count) ==
  [majority_ |-> majority,
   voting_peers_ |-> voting_peers,
   total_peers_count_ |-> total_peers_count,
   replicated_count_ |-> 0,
   completion_latch_ |-> majority]

\* A tracker built with one of the given (voting_peers, majority, total) triples.
TrackerConstructed(params) ==
  /\ \E p \in params : tracker = NewTracker(p[1], p[2], p[3])
  /\ acked = {}

\* ParticipantOpPB::ParticipantOpType
BEGIN_TXN == "BEGIN_TXN"
BEGIN_COMMIT == "BEGIN_COMMIT"
FINALIZE_COMMIT == "FINALIZE_COMMIT"
ABORT_TXN == "ABORT_TXN"
UNKNOWN == "UNKNOWN"
ParticipantOpTypes == {BEGIN_TXN, BEGIN_COMMIT, FINALIZE_COMMIT, ABORT_TXN, UNKNOWN}

\* Op::OpResult
APPLIED == "APPLIED"
ABORTED == "ABORTED"

\* Txn::State; kNone reads a txn_id that TxnParticipant has no entry for.
kNone == "kNone"
kInitializing == "kInitializing"
kOpen == "kOpen"
kCommitInProgress == "kCommitInProgress"
kCommitted == "kCommitted"
kAborted == "kAborted"

\* A null pointer.
null == "null"

\* The participant ops of the checks, and the timestamps they are given.
OpSlots == {"op1", "op2", "op3"}
Timestamps == 1..MaxTimestamp

\* A txn_id without an entry, and the entry GetOrCreateTransaction makes.
NoTxn == [state_ |-> kNone, commit_op_ |-> null]
NewTxn == [state_ |-> kInitializing, commit_op_ |-> null]

\* An op slot not yet used.
NoOp ==
  [phase |-> "none", txn_id |-> 0, type |-> UNKNOWN, txn_ |-> FALSE, txn_lock_ |-> FALSE,
   timestamp |-> 0, begin_commit_mvcc_op_ |-> null, status |-> StatusOK, result |-> null]

\* ParticipantOpState::ParticipantOpState: the request's txn_id and type,
\* no transaction, no lock, no timestamp, no MVCC op.
NewParticipantOpState(txn_id, type) ==
  [NoOp EXCEPT !.phase = "created", !.txn_id = txn_id, !.type = type]

\* An op state after Finish: what it was is gone with it, except the MVCC op
\* it never handed over.
Finished(state, result) ==
  [state EXCEPT !.phase = "finished", !.result = result, !.type = UNKNOWN,
                !.timestamp = 0, !.status = StatusOK,
                !.txn_id = IF state.txn_ \/ state.txn_lock_ THEN @ ELSE 0]

\* A timestamp at which MvccManager has no op.
NoMvccOp == [timestamp |-> 0, state |-> "none"]

\* No participant op has been created; the transactions are as given.
ParticipantConstructed(initial_txns) ==
  /\ txns \in initial_txns
  /\ ops = [o \in OpSlots |-> NoOp]
  /\ mvcc = [o \in OpSlots |-> NoMvccOp]
  /\ clock = 0

\* ReplicaState::ReplicaState, given the committed quorums the loaded
\* metadata may hold.
ReplicaConstructed(quorums) ==
  /\ \E q \in quorums :
       /\ cmeta_ = InitialPb(q)
       /\ disk = InitialPb(q)
       /\ active_quorum_state_ = Build(q, peer_uuid_)
  /\ Constructed(state_, pending_quorum_, next_index_, received_op_id_, replicated_op_id_,
                 last_triggered_apply_, pending_txns_, in_flight_commits_,
                 in_flight_applies_latch_)
  /\ replicate_watchers_ = {}
  /\ commit_watchers_ = {}
  /\ fired = <<>>
  /\ cancelled = {}
  /\ aborted = FALSE
  /\ dcheck_is_on \in BOOLEAN
  /\ call = [op |-> "ReplicaState", arg |-> NoArg]
  /\ status = StatusOK
  /\ flushed = FALSE
  /\ triggered = <<>>
  /\ assigned = NoOpId

\* The replica, with the tracker of a two-peer quorum and no participant op.
InitWith(quorums) ==
  /\ ReplicaConstructed(quorums)
  /\ TrackerConstructed({<<{"peer-a", "peer-b"}, 2, 2>>})
  /\ ParticipantConstructed({[t \in {1} |-> NoTxn]})

\* A failed CHECK ends the process: its memory is gone and only the metadata
\* on disk remains.  The in-memory fields then read as a construction from it.
Abort ==
  /\ aborted' = TRUE
  /\ cmeta_' = disk
  /\ active_quorum_state_' = Build(disk.committed_quorum, peer_uuid_)
  /\ Constructed(state_', pending_quorum_', next_index_', received_op_id_',
                 replicated_op_id_', last_triggered_apply_', pending_txns_',
                 in_flight_commits_', in_flight_applies_latch_')
  /\ call' = [op |-> "ReplicaState", arg |-> NoArg]
  /\ status' = StatusOK
  /\ flushed' = FALSE
  /\ triggered' = <<>>
  /\ assigned' = NoOpId
  /\ replicate_watchers_' = {}
  /\ commit_watchers_' = {}
  /\ fired' = <<>>
  /\ cancelled' = {}
  /\ UNCHANGED <<disk, dcheck_is_on, trackerVars, participantVars>>

Init == InitWith({MakeQuorum(p, 0) : p \in PeerLists})

\* A replica whose loaded metadata names it the leader of a two-peer quorum.
InitLeader == InitWith({MakeQuorum(<<Peer("peer-a", LEADER), Peer("peer-b", FOLLOWER)>>, 0)})

\* ----------------------------------------------- MajorityOpStatusTracker
\* The uuids that may ack, the empty one included.
TrackerUuids == {"", "peer-a", "peer-b", "peer-c", "peer-d"}

\* CountDownLatch::CountDown: one less, and nothing at zero.
CountDown(count) == IF count > 0 THEN count - 1 ELSE count

\* Every ack counted towards the majority.
CountsTowardMajorityAlways(voting_peers, uuid) == TRUE

\* voting_peers_.count(uuid) != 0
CountsTowardMajority(voting_peers, uuid) == uuid \in voting_peers

\* MajorityOpStatusTracker::IsDone
IsDone == tracker.completion_latch_ = 0

\* MajorityOpStatusTracker::IsAllDone
IsAllDone == tracker.replicated_count_ >= tracker.total_peers_count_

\* MajorityOpStatusTracker::AckPeer
AckPeer(uuid) ==
  /\ ~aborted
  /\ IF \/ uuid = ""
        \/ (dcheck_is_on /\ tracker.replicated_count_ + 1 > tracker.total_peers_count_)
     THEN Abort
     ELSE /\ tracker' =
               [tracker EXCEPT
                  !.completion_latch_ =
                     IF CountsTowardMajority(tracker.voting_peers_, uuid)
                     THEN CountDown(@) ELSE @,
                  !.replicated_count_ = @ + 1]
          /\ acked' = acked \cup {uuid}
          /\ Return("AckPeer", uuid, StatusOK)
          /\ UNCHANGED <<replicaVars, aborted, dcheck_is_on, participantVars>>

\* The trackers of the checks: every voting set over the peers, every
\* majority up to MaxMajority, every total.
TrackerParams ==
  {<<v, m, n>> : v \in SUBSET (TrackerUuids \ {""}), m \in 0..MaxMajority,
                 n \in 1..Cardinality(TrackerUuids \ {""})}

InitTracker ==
  /\ ReplicaConstructed({MakeQuorum(<<Peer("peer-a", LEADER), Peer("peer-b", FOLLOWER)>>, 0)})
  /\ TrackerConstructed(TrackerParams)
  /\ ParticipantConstructed({[t \in {1} |-> NoTxn]})

\* Acks of one replicate: no peer acks twice.
NextTracker == \E uuid \in TrackerUuids \ acked : AckPeer(uuid)

SpecTracker == InitTracker /\ [][NextTracker]_vars

\* --------------------------------------------------------- ParticipantOp
\* The txn_ids the ops name.
TxnIds == {1, 2}

outVars == <<call, status, flushed, triggered, assigned, fired, cancelled>>

\* A step of a participant op touches neither the replica nor the tracker.
ParticipantStep == UNCHANGED <<replicaVars, trackerVars, aborted, dcheck_is_on, outVars>>

\* Txn::ValidateBeginTransaction
ValidateBeginTransaction(txn) ==
  IF txn.state_ = kInitializing THEN StatusOK ELSE IllegalState

\* Txn::ValidateBeginCommit
ValidateBeginCommit(txn) ==
  IF txn.state_ = kOpen THEN StatusOK ELSE IllegalState

\* Txn::ValidateFinalize
ValidateFinalize(txn) ==
  IF txn.state_ = kCommitInProgress THEN StatusOK ELSE IllegalState

\* Txn::ValidateAbort
ValidateAbort(txn) ==
  IF txn.state_ \in {kOpen, kCommitInProgress} THEN StatusOK ELSE IllegalState

\* FINALIZE_COMMIT checked with the validator of BEGIN_COMMIT.
ValidateOpFinalizeAsBeginCommit(type, txn) ==
  CASE type = BEGIN_TXN -> ValidateBeginTransaction(txn)
    [] type = BEGIN_COMMIT -> ValidateBeginCommit(txn)
    [] type = FINALIZE_COMMIT -> ValidateBeginCommit(txn)
    [] type = ABORT_TXN -> ValidateAbort(txn)
    [] type = UNKNOWN -> InvalidArgument

\* ParticipantOpState::ValidateOp
ValidateOp(type, txn) ==
  CASE type = BEGIN_TXN -> ValidateBeginTransaction(txn)
    [] type = BEGIN_COMMIT -> ValidateBeginCommit(txn)
    [] type = FINALIZE_COMMIT -> ValidateFinalize(txn)
    [] type = ABORT_TXN -> ValidateAbort(txn)
    [] type = UNKNOWN -> InvalidArgument

\* Txn::BeginTransaction, BeginCommit, FinalizeCommit, AbortTransaction:
\* the state each mutator sets.
Mutated(type, txn) ==
  CASE type = BEGIN_TXN -> [txn EXCEPT !.state_ = kOpen]
    [] type = BEGIN_COMMIT -> [txn EXCEPT !.state_ = kCommitInProgress]
    [] type = FINALIZE_COMMIT -> [txn EXCEPT !.state_ = kCommitted]
    [] type = ABORT_TXN -> [txn EXCEPT !.state_ = kAborted]

\* rw_semaphore: the write lock of the Txn is free when no op state owns it.
LockFree(txn_id) ==
  \A o \in OpSlots : ~(ops[o].txn_id = txn_id /\ ops[o].txn_lock_)

\* Txn::HasOneRef: TxnParticipant's map holds the only reference.
HasOneRef(txn_id) ==
  \A o \in OpSlots : ~(ops[o].txn_id = txn_id /\ ops[o].txn_)

\* The slots used before this one.
SlotsBefore(o) ==
  CASE o = "op1" -> {}
    [] o = "op2" -> {"op1"}
    [] o = "op3" -> {"op1", "op2"}

\* ParticipantOpState::AcquireTxnAndLock of a newly constructed op state, up
\* to the call of AcquireWriteLock: GetOrCreateTransaction hands out the Txn
\* of the txn_id, a new one if there is none, and the op waits for its lock.
AcquireTxnAndLock(o, txn_id, type) ==
  /\ ~aborted
  /\ ops[o] = NoOp
  /\ \A b \in SlotsBefore(o) : ops[b] # NoOp
  /\ txns' = [txns EXCEPT ![txn_id] = IF @ = NoTxn THEN NewTxn ELSE @]
  /\ ops' = [ops EXCEPT ![o] = [NewParticipantOpState(txn_id, type) EXCEPT
                                   !.txn_ = TRUE, !.phase = "acquiring"]]
  /\ UNCHANGED <<mvcc, clock>>
  /\ ParticipantStep

\* FINALIZE_COMMIT on the leader bumps the clock.
BumpsClock(type, driver_type) == type = FINALIZE_COMMIT /\ driver_type = LEADER

\* ParticipantOp::Prepare from the moment AcquireWriteLock returns; the
\* driver's type, the commit timestamp of the request and whether the clock
\* takes it are its inputs.
Prepare(o, driver_type, commit_timestamp, clock_accepts) ==
  /\ ~aborted
  /\ ops[o].phase = "acquiring"
  /\ LockFree(ops[o].txn_id)
  /\ LET validated == ValidateOp(ops[o].type, txns[ops[o].txn_id])
         bumps == validated = StatusOK /\ BumpsClock(ops[o].type, driver_type)
         s == IF validated # StatusOK THEN validated
              ELSE IF bumps /\ ~clock_accepts THEN InvalidArgument
              ELSE StatusOK
     IN /\ ops' = [ops EXCEPT ![o].txn_lock_ = TRUE,
                               ![o].status = s,
                               ![o].phase = IF s = StatusOK THEN "prepared" ELSE "failed"]
        /\ clock' = IF bumps /\ clock_accepts /\ commit_timestamp > clock
                    THEN commit_timestamp ELSE clock
  /\ UNCHANGED <<txns, mvcc>>
  /\ ParticipantStep

\* Start opens an MVCC op for every op that begins something.
OpensMvccOpOnBegin(type) == type \in {BEGIN_TXN, BEGIN_COMMIT}

\* ParticipantOp::Start: the test that guards tablet()->StartOp
OpensMvccOp(type) == type = BEGIN_COMMIT

\* ParticipantOp::Start, given the timestamp of the replicate message.
\* Tablet::StartOp opens an MVCC op at the op's timestamp and hands it to
\* SetMvccOp.
ParticipantOpStart(o, replicate_timestamp) ==
  /\ ~aborted
  /\ ops[o].phase = "prepared"
  /\ ops' = [ops EXCEPT ![o].timestamp = replicate_timestamp,
                         ![o].begin_commit_mvcc_op_ = IF OpensMvccOp(ops[o].type) THEN o ELSE @,
                         ![o].phase = "started"]
  /\ mvcc' = IF OpensMvccOp(ops[o].type)
             THEN [mvcc EXCEPT ![o] = [timestamp |-> replicate_timestamp, state |-> "open"]]
             ELSE mvcc
  /\ UNCHANGED <<txns, clock>>
  /\ ParticipantStep

\* ScopedOp::FinishApplying, ScopedOp::Abort
Closed(mvcc_ops, op, how) == [mvcc_ops EXCEPT ![op].state = how]

\* ParticipantOpState::PerformOp: what it does to MVCC.
PerformOpMvcc(type, txn) ==
  IF type = FINALIZE_COMMIT /\ txn.commit_op_ # null THEN Closed(mvcc, txn.commit_op_, "finished")
  ELSE IF type = ABORT_TXN /\ txn.commit_op_ # null THEN Closed(mvcc, txn.commit_op_, "aborted")
  ELSE mvcc

\* ParticipantOpState::ReleaseMvccOpToTxn: Txn::SetCommitOp
ReleaseMvccOpToTxn(state, txn) == [txn EXCEPT !.commit_op_ = state.begin_commit_mvcc_op_]

\* ParticipantOp::Apply; PerformOp's InvalidArgument fails the CHECK_OK.
Apply(o) ==
  /\ ~aborted
  /\ ops[o].phase = "started"
  /\ IF ops[o].type = UNKNOWN
     THEN Abort
     ELSE LET type == ops[o].type
              txn == txns[ops[o].txn_id]
          IN /\ mvcc' = PerformOpMvcc(type, Mutated(type, txn))
             /\ txns' = [txns EXCEPT ![ops[o].txn_id] =
                            IF type = BEGIN_COMMIT
                            THEN ReleaseMvccOpToTxn(ops[o], Mutated(type, txn))
                            ELSE Mutated(type, txn)]
             /\ ops' = [ops EXCEPT ![o].begin_commit_mvcc_op_ =
                                      IF type = BEGIN_COMMIT THEN null ELSE @,
                                    ![o].phase = "applied"]
             /\ UNCHANGED clock
             /\ ParticipantStep

\* The lock stays with the op state; only the reference is dropped.
ReleaseTxnRefOnly(state) == [state EXCEPT !.txn_ = FALSE]

\* ParticipantOpState::ReleaseTxn
ReleaseTxn(state) == [state EXCEPT !.txn_lock_ = FALSE, !.txn_ = FALSE]

\* ParticipantOp::Finish up to the call of ClearIfInitFailed.  The driver
\* finishes an applied op with APPLIED, and with ABORTED an op that failed
\* Prepare or whose replication failed before Apply.
Finish(o, result) ==
  /\ ~aborted
  /\ \/ result = APPLIED /\ ops[o].phase = "applied"
     \/ result = ABORTED /\ ops[o].phase \in {"failed", "prepared", "started"}
  /\ ops' = [ops EXCEPT ![o] =
               IF result = ABORTED
               THEN [ReleaseTxn(@) EXCEPT !.result = result, !.phase = "clearing"]
               ELSE Finished(ReleaseTxn(@), result)]
  /\ UNCHANGED <<txns, mvcc, clock>>
  /\ ParticipantStep

\* TxnParticipant::ClearIfInitFailed, the rest of an ABORTED Finish: the
\* entry goes if it never left kInitializing and no op refers to it.
ClearIfInitFailed(o) ==
  /\ ~aborted
  /\ ops[o].phase = "clearing"
  /\ txns' = [txns EXCEPT ![ops[o].txn_id] =
                 IF @.state_ = kInitializing /\ HasOneRef(ops[o].txn_id) THEN NoTxn ELSE @]
  /\ ops' = [ops EXCEPT ![o] = Finished(@, ABORTED)]
  /\ UNCHANGED <<mvcc, clock>>
  /\ ParticipantStep

\* A transaction as bootstrap leaves it: unknown, or replayed up to
\* BEGIN_TXN or BEGIN_COMMIT, the commit's MVCC op not reopened.
BootstrappedTxns == {NoTxn, [NoTxn EXCEPT !.state_ = kOpen], [NoTxn EXCEPT !.state_ = kCommitInProgress]}

\* The transactions at the start: the first unknown or open, the others
\* unknown or replayed up to BEGIN_COMMIT.
InitialTxns(txn_ids) ==
  {f \in [txn_ids -> BootstrappedTxns] :
     \A t \in txn_ids : IF t = 1 THEN f[t].state_ # kCommitInProgress ELSE f[t].state_ # kOpen}

InitParticipantOn(initial_txns) ==
  /\ ReplicaConstructed({MakeQuorum(<<Peer("peer-a", LEADER), Peer("peer-b", FOLLOWER)>>, 0)})
  /\ dcheck_is_on
  /\ TrackerConstructed({<<{"peer-a", "peer-b"}, 2, 2>>})
  /\ ParticipantConstructed(initial_txns)

InitParticipant == InitParticipantOn(InitialTxns(TxnIds))

\* The steps of one op.
StepOf(o) ==
  \/ \E driver_type \in {LEADER, FOLLOWER}, commit_timestamp \in Timestamps, clock_accepts \in BOOLEAN :
       Prepare(o, driver_type, commit_timestamp, clock_accepts)
  \/ \E replicate_timestamp \in Timestamps : ParticipantOpStart(o, replicate_timestamp)
  \/ Apply(o)
  \/ \E result \in {APPLIED, ABORTED} : Finish(o, result)
  \/ ClearIfInitFailed(o)

\* Ops arrive for the known txn_ids and take their steps.
NextParticipant ==
  \E o \in OpSlots :
    \/ \E txn_id \in DOMAIN txns, type \in ParticipantOpTypes : AcquireTxnAndLock(o, txn_id, type)
    \/ StepOf(o)

SpecParticipant == InitParticipant /\ [][NextParticipant]_vars

\* The ops of one transaction, every one of which takes the step it can
\* take: the driver runs each op on a thread of its own, and a lock that
\* stays free is handed to the op waiting for it.
SpecParticipantFair ==
  /\ InitParticipantOn([{1} -> BootstrappedTxns])
  /\ [][NextParticipant]_vars
  /\ \A o \in OpSlots : WF_vars(StepOf(o))

\* ------------------------------------------------- consensus metadata
\* ConsensusMetadata::Flush: on success the in-memory pb is what is on disk,
\* on failure the disk keeps what it had.
Flush(pb, ok) == IF ok THEN pb ELSE disk

FlushStatus(ok) == IF ok THEN StatusOK ELSE IOError

\* set_current_term(t) without clear_voted_for()
WithTermKeepingVote(pb, t) == [pb EXCEPT !.current_term = t]

\* set_current_term(t); clear_voted_for()
WithTerm(pb, t) ==
  [pb EXCEPT !.current_term = t, !.has_voted_for = FALSE, !.voted_for = ""]

\* set_voted_for(uuid)
WithVote(pb, uuid) == [pb EXCEPT !.has_voted_for = TRUE, !.voted_for = uuid]

\* mutable_committed_quorum()->CopyFrom(q)
WithCommittedQuorum(pb, q) == [pb EXCEPT !.committed_quorum = q]

\* mutable_committed_quorum()->set_seqno(seqno + 1)
WithNextSeqno(pb) ==
  [pb EXCEPT !.committed_quorum.seqno = pb.committed_quorum.seqno + 1]

\* A guard that lets every term through.
TermIsLowerNever(new_term, current_term) == FALSE

\* The guard of SetCurrentTermUnlocked: the proposed term is lower.
TermIsLower(new_term, current_term) == new_term < current_term

GetCurrentTermUnlocked == cmeta_.current_term

HasVotedCurrentTermUnlocked == cmeta_.has_voted_for

GetCommittedQuorumUnlocked == cmeta_.committed_quorum

IsQuorumChangePendingUnlocked == pending_quorum_ # NoQuorum

\* ReplicaState::IncrementTermUnlocked
IncrementTermUnlocked ==
  /\ ~aborted
  /\ cmeta_.current_term < MaxTerm
  /\ \E ok \in BOOLEAN :
       /\ cmeta_' = WithTerm(cmeta_, cmeta_.current_term + 1)
       /\ disk' = Flush(cmeta_', ok)
       /\ Returns("IncrementTermUnlocked", NoArg, FlushStatus(ok), TRUE, <<>>, NoOpId)
  /\ UNCHANGED <<state_, pending_quorum_, active_quorum_state_, logVars, txnVars,
                 watchVars, aborted, dcheck_is_on, trackerVars, participantVars>>

\* ReplicaState::SetCurrentTermUnlocked
SetCurrentTermUnlocked(new_term) ==
  /\ ~aborted
  /\ IF TermIsLower(new_term, GetCurrentTermUnlocked)
     THEN /\ Return("SetCurrentTermUnlocked", new_term, IllegalState)
          /\ UNCHANGED <<cmeta_, disk>>
     ELSE \E ok \in BOOLEAN :
            /\ cmeta_' = WithTerm(cmeta_, new_term)
            /\ disk' = Flush(cmeta_', ok)
            /\ Returns("SetCurrentTermUnlocked", new_term, FlushStatus(ok), TRUE, <<>>, NoOpId)
  /\ UNCHANGED <<state_, pending_quorum_, active_quorum_state_, logVars, txnVars,
                 watchVars, aborted, dcheck_is_on, trackerVars, participantVars>>

\* ReplicaState::SetVotedForCurrentTermUnlocked
SetVotedForCurrentTermUnlocked(uuid) ==
  /\ ~aborted
  /\ \E ok \in BOOLEAN :
       /\ cmeta_' = WithVote(cmeta_, uuid)
       /\ disk' = Flush(cmeta_', ok)
       /\ Returns("SetVotedForCurrentTermUnlocked", uuid, FlushStatus(ok), TRUE, <<>>, NoOpId)
  /\ UNCHANGED <<state_, pending_quorum_, active_quorum_state_, logVars, txnVars,
                 watchVars, aborted, dcheck_is_on, trackerVars, participantVars>>

\* ReplicaState::SetPendingQuorumUnlocked
SetPendingQuorumUnlocked(new_quorum) ==
  /\ ~aborted
  /\ IF IsQuorumChangePendingUnlocked
     THEN Abort
     ELSE /\ pending_quorum_' = new_quorum
          /\ active_quorum_state_' = Build(new_quorum, peer_uuid_)
          /\ Return("SetPendingQuorumUnlocked", new_quorum, StatusOK)
          /\ UNCHANGED <<state_, cmeta_, disk, logVars, txnVars, watchVars, aborted, dcheck_is_on, trackerVars, participantVars>>

\* ReplicaState::SetCommittedQuorumUnlocked
SetCommittedQuorumUnlocked(new_quorum) ==
  /\ ~aborted
  /\ IF /\ IsQuorumChangePendingUnlocked
        /\ SerializeAsString(pending_quorum_) # SerializeAsString(new_quorum)
     THEN Abort
     ELSE \E ok \in BOOLEAN :
            /\ active_quorum_state_' =
                 IF IsQuorumChangePendingUnlocked THEN active_quorum_state_
                 ELSE Build(new_quorum, peer_uuid_)
            /\ cmeta_' = WithCommittedQuorum(cmeta_, new_quorum)
            /\ disk' = Flush(cmeta_', ok)
            /\ pending_quorum_' = IF ok THEN NoQuorum ELSE pending_quorum_
            /\ Returns("SetCommittedQuorumUnlocked", new_quorum, FlushStatus(ok), TRUE, <<>>, NoOpId)
            /\ UNCHANGED <<state_, logVars, txnVars, watchVars, aborted, dcheck_is_on, trackerVars, participantVars>>

\* ReplicaState::IncrementConfigSeqNoUnlocked
IncrementConfigSeqNoUnlocked ==
  /\ ~aborted
  /\ cmeta_.committed_quorum.seqno < MaxSeqno
  /\ \E ok \in BOOLEAN :
       /\ cmeta_' = WithNextSeqno(cmeta_)
       /\ disk' = Flush(cmeta_', ok)
       /\ Returns("IncrementConfigSeqNoUnlocked", NoArg, FlushStatus(ok), TRUE, <<>>, NoOpId)
  /\ UNCHANGED <<state_, pending_quorum_, active_quorum_state_, logVars, txnVars,
                 watchVars, aborted, dcheck_is_on, trackerVars, participantVars>>

\* The term, vote and quorum operations.
NextMeta ==
  \/ IncrementTermUnlocked
  \/ \E new_term \in Terms : SetCurrentTermUnlocked(new_term)
  \/ \E uuid \in Uuids : SetVotedForCurrentTermUnlocked(uuid)
  \/ \E q \in Quorums : SetPendingQuorumUnlocked(q)
  \/ \E q \in Quorums : SetCommittedQuorumUnlocked(q)
  \/ IncrementConfigSeqNoUnlocked

SpecMeta == Init /\ [][NextMeta]_vars

\* ------------------------------------------------------ lifecycle
\* LockForStart followed by StartUnlocked(initial_id)
Start(initial_id) ==
  /\ ~aborted
  /\ IF state_ # kInitialized
     THEN Abort
     ELSE IF initial_id.term < GetCurrentTermUnlocked
     THEN /\ Return("Start", initial_id, InvalidArgument)
          /\ UNCHANGED <<state_, metaVars, logVars, txnVars, watchVars, aborted, dcheck_is_on, trackerVars, participantVars>>
     ELSE IF initial_id.term # GetCurrentTermUnlocked
     THEN Abort
     ELSE /\ next_index_' = initial_id.index + 1
          /\ replicated_op_id_' = initial_id
          /\ received_op_id_' = initial_id
          /\ last_triggered_apply_' = initial_id
          /\ Return("Start", initial_id, StatusOK)
          /\ UNCHANGED <<state_, metaVars, txnVars, watchVars, aborted, dcheck_is_on, trackerVars, participantVars>>

\* ReplicaState::LockForStart
LockForStart ==
  /\ ~aborted
  /\ IF state_ # kInitialized
     THEN Abort
     ELSE /\ Return("LockForStart", NoArg, StatusOK)
          /\ UNCHANGED <<state_, metaVars, logVars, txnVars, watchVars, aborted, dcheck_is_on, trackerVars, participantVars>>

\* The Status LockForReplicate returns when it returns one; the lock is
\* handed out exactly when it is OK.
LockForReplicateStatus(op_type) ==
  IF state_ # kRunning THEN IllegalState
  ELSE IF active_quorum_state_.role = LEADER THEN StatusOK
  ELSE IF active_quorum_state_.role = CANDIDATE
  THEN IF op_type # CHANGE_CONFIG_OP THEN IllegalState ELSE StatusOK
  ELSE IllegalState

\* ReplicaState::LockForReplicate, msg being of type op_type and without id
LockForReplicate(op_type) ==
  /\ ~aborted
  /\ IF /\ state_ = kRunning
        /\ active_quorum_state_.role = CANDIDATE
        /\ op_type = CHANGE_CONFIG_OP
        /\ GetCurrentTermUnlocked # 0
     THEN Abort
     ELSE /\ Return("LockForReplicate", op_type, LockForReplicateStatus(op_type))
          /\ UNCHANGED <<state_, metaVars, logVars, txnVars, watchVars, aborted, dcheck_is_on, trackerVars, participantVars>>

\* ReplicaState::LockForCommit
LockForCommit ==
  /\ ~aborted
  /\ Return("LockForCommit", NoArg,
            IF state_ # kRunning /\ state_ # kShuttingDown THEN IllegalState ELSE StatusOK)
  /\ UNCHANGED <<state_, metaVars, logVars, txnVars, watchVars, aborted, dcheck_is_on, trackerVars, participantVars>>

\* ReplicaState::LockForElection
LockForElection ==
  /\ ~aborted
  /\ Return("LockForElection", NoArg,
            IF ~(state_ = kInitialized \/ state_ = kRunning) THEN IllegalState ELSE StatusOK)
  /\ UNCHANGED <<state_, metaVars, logVars, txnVars, watchVars, aborted, dcheck_is_on, trackerVars, participantVars>>

\* ReplicaState::LockForUpdate
LockForUpdate ==
  /\ ~aborted
  /\ Return("LockForUpdate", NoArg,
            IF state_ # kRunning THEN IllegalState
            ELSE IF active_quorum_state_.role = LEADER THEN IllegalState
            ELSE IF active_quorum_state_.role = NON_PARTICIPANT THEN IllegalState
            ELSE StatusOK)
  /\ UNCHANGED <<state_, metaVars, logVars, txnVars, watchVars, aborted, dcheck_is_on, trackerVars, participantVars>>

\* A config change admitted in every state.
MayChangeConfigAnyState(s) == TRUE

\* The states LockForConfigChange CHECKs for.
MayChangeConfig(s) == s = kInitialized \/ s = kRunning

\* ReplicaState::LockForConfigChange
LockForConfigChange ==
  /\ ~aborted
  /\ IF MayChangeConfig(state_)
     THEN /\ state_' = kChangingConfig
          /\ Return("LockForConfigChange", NoArg, StatusOK)
          /\ UNCHANGED <<metaVars, logVars, txnVars, watchVars, aborted, dcheck_is_on, trackerVars, participantVars>>
     ELSE Abort

\* ReplicaState::SetConfigDoneUnlocked
SetConfigDoneUnlocked ==
  /\ ~aborted
  /\ IF state_ = kChangingConfig
     THEN /\ state_' = kRunning
          /\ Return("SetConfigDoneUnlocked", NoArg, StatusOK)
          /\ UNCHANGED <<metaVars, logVars, txnVars, watchVars, aborted, dcheck_is_on, trackerVars, participantVars>>
     ELSE Abort

\* The latch reset on every call.
LatchAfterShutdownLockRearmed(s, count, in_flight) == in_flight

\* The latch count LockForShutdown leaves: Reset(in_flight_commits_.size())
\* only when the state was not yet kShuttingDown.
LatchAfterShutdownLock(s, count, in_flight) ==
  IF s # kShuttingDown THEN in_flight ELSE count

\* ReplicaState::LockForShutdown
LockForShutdown ==
  /\ ~aborted
  /\ IF state_ = kShutDown
     THEN /\ Return("LockForShutdown", NoArg, IllegalState)
          /\ UNCHANGED <<state_, in_flight_applies_latch_>>
     ELSE /\ state_' = kShuttingDown
          /\ in_flight_applies_latch_' =
               LatchAfterShutdownLock(state_, in_flight_applies_latch_,
                                      Cardinality(in_flight_commits_))
          /\ Return("LockForShutdown", NoArg, StatusOK)
  /\ UNCHANGED <<metaVars, logVars, pending_txns_, in_flight_commits_, watchVars, aborted, dcheck_is_on, trackerVars, participantVars>>

\* ReplicaState::Shutdown
Shutdown ==
  /\ ~aborted
  /\ IF state_ = kShuttingDown
     THEN /\ state_' = kShutDown
          /\ Return("Shutdown", NoArg, StatusOK)
          /\ UNCHANGED <<metaVars, logVars, txnVars, watchVars, aborted, dcheck_is_on, trackerVars, participantVars>>
     ELSE Abort

\* ------------------------------------------------- pending operations
\* A ConsensusRound: the id and op type of its replicate message, and whether
\* it carries a replica commit continuation (else a replicate callback).
MakeRound(id, op_type, continuation) ==
  [id |-> id, op_type |-> op_type, continuation |-> continuation]

\* The keys of the map in (after, upto], in the map's iteration order:
\* upper_bound(after) up to upper_bound(upto).
RECURSIVE SortedOpIds(_)
SortedOpIds(ids) ==
  IF ids = {} THEN <<>>
  ELSE LET first == CHOOSE a \in ids : \A b \in ids : OpIdCompare(a, b) <= 0
       IN <<first>> \o SortedOpIds(ids \ {first})

RangeToCommit(after, upto) ==
  SortedOpIds({k \in DOMAIN pending_txns_ :
                 OpIdCompare(k, after) > 0 /\ OpIdCompare(k, upto) <= 0})

\* The early return decided on the index alone.
AlreadyTriggeredByIndex(id) == last_triggered_apply_.index >= id.index

\* The guard of the early return: everything up to id was already triggered.
AlreadyTriggered(id) == OpIdCompare(last_triggered_apply_, id) >= 0

SeqToSet(seq) == {seq[i] : i \in 1..Len(seq)}

\* OpIdWaiterSet::MarkMode
MARK_ONLY_THIS_OP == "MARK_ONLY_THIS_OP"
MARK_ALL_OPS_BEFORE == "MARK_ALL_OPS_BEFORE"

\* OpIdWaiterSet::MarkFinished: the registered ids whose callbacks are fired
\* and removed, in OpId order.
MarkFinished(watchers, op_id, mode) ==
  SortedOpIds({k \in watchers : IF mode = MARK_ONLY_THIS_OP THEN k = op_id
                                 ELSE OpIdCompare(k, op_id) <= 0})

\* The commit watchers marked the way the replicate watchers are.
CommitWatchersModeAllBefore == MARK_ALL_OPS_BEFORE

\* The mode UpdateCommittedOpIdUnlocked passes to commit_watchers_.MarkFinished
CommitWatchersMode == MARK_ONLY_THIS_OP

\* A latch counted down in every state but kShuttingDown.
LatchAfterCountDownUnlessShuttingDown(s, count) ==
  IF s # kShuttingDown /\ count > 0 THEN count - 1 ELSE count

\* CountDownOutstandingCommitsIfShuttingDown: the latch count it leaves
\* (CountDownLatch::CountDown does nothing at zero).
LatchAfterCountDown(s, count) ==
  IF s = kShuttingDown /\ count > 0 THEN count - 1 ELSE count

\* Every round refused outside kRunning.
RefusesOutsideRunning(s, op_type) == s # kRunning

\* The rounds AddPendingOperation refuses: outside kRunning, all but a
\* config change.
RefusesRound(s, op_type) == s # kRunning /\ op_type # CHANGE_CONFIG_OP

\* ReplicaState::AddPendingOperation
AddPendingOperation(round) ==
  /\ ~aborted
  /\ IF RefusesRound(state_, round.op_type)
     THEN /\ Return("AddPendingOperation", round, IllegalState)
          /\ UNCHANGED <<state_, metaVars, logVars, txnVars, watchVars, aborted, dcheck_is_on, trackerVars, participantVars>>
     ELSE IF round.id \in DOMAIN pending_txns_
     THEN Abort
     ELSE /\ pending_txns_' = (round.id :> round) @@ pending_txns_
          /\ Return("AddPendingOperation", round, StatusOK)
          /\ UNCHANGED <<state_, metaVars, logVars, in_flight_commits_,
                         in_flight_applies_latch_, watchVars, aborted, dcheck_is_on, trackerVars, participantVars>>

\* ReplicaState::MarkConsensusCommittedUpToUnlocked.  n is the number of
\* rounds whose ConsensusCommitted() / Submit() returned OK before one
\* returned an error (all of them when n is the length of the range).
MarkConsensusCommittedUpToUnlocked(id) ==
  /\ ~aborted
  /\ IF state_ = kShuttingDown \/ state_ = kShutDown
     THEN /\ Return("MarkConsensusCommittedUpToUnlocked", id, ServiceUnavailable)
          /\ UNCHANGED <<state_, metaVars, logVars, txnVars, watchVars, aborted, dcheck_is_on, trackerVars, participantVars>>
     ELSE IF state_ # kRunning
     THEN /\ Return("MarkConsensusCommittedUpToUnlocked", id, IllegalState)
          /\ UNCHANGED <<state_, metaVars, logVars, txnVars, watchVars, aborted, dcheck_is_on, trackerVars, participantVars>>
     ELSE IF AlreadyTriggered(id)
     THEN /\ Return("MarkConsensusCommittedUpToUnlocked", id, StatusOK)
          /\ UNCHANGED <<state_, metaVars, logVars, txnVars, watchVars, aborted, dcheck_is_on, trackerVars, participantVars>>
     ELSE LET range == RangeToCommit(last_triggered_apply_, id)
          IN \E n \in 0..Len(range) :
               LET reached == IF n = Len(range) THEN n ELSE n + 1
                   called == SubSeq(range, 1, reached)
               IN IF \E i \in 1..reached : range[i] \in in_flight_commits_
                  THEN Abort
                  ELSE /\ in_flight_commits_' = in_flight_commits_ \cup SeqToSet(called)
                       /\ last_triggered_apply_' =
                            IF n = Len(range) THEN id ELSE last_triggered_apply_
                       /\ Returns("MarkConsensusCommittedUpToUnlocked", id, IF n = Len(range) THEN StatusOK ELSE IOError,
                                  FALSE, called, NoOpId)
                       /\ UNCHANGED <<state_, metaVars, next_index_, received_op_id_,
                                      replicated_op_id_, pending_txns_,
                                      in_flight_applies_latch_, watchVars, aborted, dcheck_is_on, trackerVars, participantVars>>

\* The commit of committed_op_id, leaving the latch at latch_after.
CommitOpId(op, committed_op_id, latch_after) ==
  /\ ~aborted
  /\ IF \/ committed_op_id \notin in_flight_commits_
        \/ committed_op_id \notin DOMAIN pending_txns_
     THEN Abort
     ELSE /\ in_flight_commits_' = in_flight_commits_ \ {committed_op_id}
          /\ pending_txns_' = [k \in DOMAIN pending_txns_ \ {committed_op_id} |->
                                 pending_txns_[k]]
          /\ in_flight_applies_latch_' = latch_after
          /\ commit_watchers_' =
               commit_watchers_ \
                 SeqToSet(MarkFinished(commit_watchers_, committed_op_id, CommitWatchersMode))
          /\ Outputs(op, committed_op_id, StatusOK, FALSE, <<>>, NoOpId,
                     MarkFinished(commit_watchers_, committed_op_id, CommitWatchersMode), {})
          /\ UNCHANGED <<state_, metaVars, logVars, replicate_watchers_,
                         aborted, dcheck_is_on, trackerVars, participantVars>>

\* ReplicaState::UpdateCommittedOpIdUnlocked
UpdateCommittedOpIdUnlocked(committed_op_id) ==
  CommitOpId("UpdateCommittedOpIdUnlocked", committed_op_id, in_flight_applies_latch_)

\* ReplicaState::CountDownOutstandingCommitsIfShuttingDown
CountDownOutstandingCommitsIfShuttingDown ==
  /\ ~aborted
  /\ in_flight_applies_latch_' = LatchAfterCountDown(state_, in_flight_applies_latch_)
  /\ Return("CountDownOutstandingCommitsIfShuttingDown", NoArg, StatusOK)
  /\ UNCHANGED <<state_, metaVars, logVars, pending_txns_, in_flight_commits_,
                 watchVars, aborted, dcheck_is_on, trackerVars, participantVars>>

\* update_committed_op_id as the consensus driver performs it when an apply
\* completes: UpdateCommittedOpIdUnlocked, then
\* CountDownOutstandingCommitsIfShuttingDown, under one hold of the lock.
UpdateCommittedOpId(committed_op_id) ==
  CommitOpId("UpdateCommittedOpId", committed_op_id,
             LatchAfterCountDown(state_, in_flight_applies_latch_))

\* No apply counted as in flight.
ApplyInFlightNever(in_flight, id) == FALSE

\* in_flight_commits_.count(id) != 0: the apply of id was already triggered.
ApplyInFlight(in_flight, id) == id \in in_flight

\* ReplicaState::CancelPendingTransactions.  A pending round that is not in
\* flight and has no replica commit continuation makes the call dereference
\* NULL: the process dies, or the call goes on without that round.
CancelPendingTransactions ==
  /\ ~aborted
  /\ IF state_ # kShuttingDown
     THEN /\ Return("CancelPendingTransactions", NoArg, IllegalState)
          /\ UNCHANGED <<state_, metaVars, logVars, txnVars, watchVars, aborted, dcheck_is_on, trackerVars, participantVars>>
     ELSE LET not_in_flight == {k \in DOMAIN pending_txns_ :
                                  ~ApplyInFlight(in_flight_commits_, k)}
              with_continuation == {k \in not_in_flight : pending_txns_[k].continuation}
          IN \/ /\ with_continuation # not_in_flight
                /\ Abort
             \/ /\ Outputs("CancelPendingTransactions", NoArg, StatusOK, FALSE, <<>>,
                            NoOpId, <<>>, with_continuation)
                /\ UNCHANGED <<state_, metaVars, logVars, txnVars, watchVars,
                               aborted, dcheck_is_on, trackerVars, participantVars>>

\* ReplicaState::WaitForOustandingApplies: in kShuttingDown the call blocks in
\* in_flight_applies_latch_.Wait() and returns once the count is zero.
WaitForOustandingApplies ==
  /\ ~aborted
  /\ state_ = kShuttingDown => in_flight_applies_latch_ = 0
  /\ Return("WaitForOustandingApplies", NoArg,
            IF state_ = kShuttingDown THEN StatusOK ELSE IllegalState)
  /\ UNCHANGED <<state_, metaVars, logVars, txnVars, watchVars, aborted, dcheck_is_on, trackerVars, participantVars>>

\* ------------------------------------------------------- watermarks
\* ReplicaState::UpdateLastReplicatedOpIdUnlocked
UpdateLastReplicatedOpIdUnlocked(op_id) ==
  /\ ~aborted
  /\ replicated_op_id_' = op_id
  /\ replicate_watchers_' =
       replicate_watchers_ \
         SeqToSet(MarkFinished(replicate_watchers_, op_id, MARK_ALL_OPS_BEFORE))
  /\ Outputs("UpdateLastReplicatedOpIdUnlocked", op_id, StatusOK, FALSE, <<>>, NoOpId,
             MarkFinished(replicate_watchers_, op_id, MARK_ALL_OPS_BEFORE), {})
  /\ UNCHANGED <<state_, metaVars, next_index_, received_op_id_, last_triggered_apply_,
                 txnVars, commit_watchers_, aborted, dcheck_is_on, trackerVars, participantVars>>

\* ReplicaState::RegisterOnReplicateCallback
RegisterOnReplicateCallback(replicate_op_id) ==
  /\ ~aborted
  /\ IF OpIdCompare(replicate_op_id, replicated_op_id_) > 0
     THEN /\ replicate_watchers_' = replicate_watchers_ \cup {replicate_op_id}
          /\ Return("RegisterOnReplicateCallback", replicate_op_id, StatusOK)
     ELSE /\ Return("RegisterOnReplicateCallback", replicate_op_id, AlreadyPresent)
          /\ UNCHANGED replicate_watchers_
  /\ UNCHANGED <<state_, metaVars, logVars, txnVars, commit_watchers_, aborted, dcheck_is_on, trackerVars, participantVars>>

\* ReplicaState::RegisterOnCommitCallback
RegisterOnCommitCallback(op_id) ==
  /\ ~aborted
  /\ IF \/ OpIdCompare(op_id, replicated_op_id_) > 0
        \/ op_id \in DOMAIN pending_txns_
     THEN /\ commit_watchers_' = commit_watchers_ \cup {op_id}
          /\ Return("RegisterOnCommitCallback", op_id, StatusOK)
     ELSE /\ Return("RegisterOnCommitCallback", op_id, AlreadyPresent)
          /\ UNCHANGED commit_watchers_
  /\ UNCHANGED <<state_, metaVars, logVars, txnVars, replicate_watchers_, aborted, dcheck_is_on, trackerVars, participantVars>>

\* ReplicaState::UpdateLastReceivedOpIdUnlocked
UpdateLastReceivedOpIdUnlocked(op_id) ==
  /\ ~aborted
  /\ IF dcheck_is_on /\ OpIdCompare(received_op_id_, op_id) > 0
     THEN Abort
     ELSE /\ received_op_id_' = op_id
          /\ next_index_' = op_id.index + 1
          /\ Return("UpdateLastReceivedOpIdUnlocked", op_id, StatusOK)
          /\ UNCHANGED <<state_, metaVars, replicated_op_id_, last_triggered_apply_,
                         txnVars, watchVars, aborted, dcheck_is_on, trackerVars, participantVars>>

\* ReplicaState::NewIdUnlocked
NewIdUnlocked ==
  /\ ~aborted
  /\ next_index_ <= MaxIndex
  /\ next_index_' = next_index_ + 1
  /\ Returns("NewIdUnlocked", NoArg, StatusOK, FALSE, <<>>, MakeOpId(GetCurrentTermUnlocked, next_index_))
  /\ UNCHANGED <<state_, metaVars, received_op_id_, replicated_op_id_,
                 last_triggered_apply_, txnVars, watchVars, aborted, dcheck_is_on, trackerVars, participantVars>>

\* ReplicaState::CancelPendingOperation
CancelPendingOperation(id) ==
  /\ ~aborted
  /\ IF \/ GetCurrentTermUnlocked # id.term
        \/ next_index_ # id.index + 1
        \/ (dcheck_is_on /\ id \notin DOMAIN pending_txns_)
     THEN Abort
     ELSE /\ next_index_' = id.index
          /\ pending_txns_' = [k \in DOMAIN pending_txns_ \ {id} |-> pending_txns_[k]]
          /\ Return("CancelPendingOperation", id, StatusOK)
          /\ UNCHANGED <<state_, metaVars, received_op_id_, replicated_op_id_,
                         last_triggered_apply_, in_flight_commits_,
                         in_flight_applies_latch_, watchVars, aborted, dcheck_is_on, trackerVars, participantVars>>

\* Rounds offered to AddPendingOperation: a replica round (continuation) or
\* a leader round (replicate callback) of either op type.
RoundsFor(ids) ==
  {MakeRound(id, t, c) : id \in ids, t \in {WRITE_OP, CHANGE_CONFIG_OP}, c \in BOOLEAN}

\* The leader's round for the id NewIdUnlocked has just handed out.
LeaderRounds ==
  IF assigned = NoOpId THEN {} ELSE {MakeRound(assigned, WRITE_OP, FALSE)}

\* Rounds of the commit scenarios: a replica's write, a leader's config change.
CommitRounds ==
  {MakeRound(id, WRITE_OP, TRUE) : id \in CommitIds}
    \cup {MakeRound(id, CHANGE_CONFIG_OP, FALSE) : id \in CommitIds}

\* The watermarks: every operation that moves one, from construction on.
NextLog ==
  \/ \E id \in OpIds : Start(id)
  \/ LockForConfigChange
  \/ SetConfigDoneUnlocked
  \/ NewIdUnlocked
  \/ \E id \in OpIds : CancelPendingOperation(id)
  \/ \E id \in OpIds : UpdateLastReceivedOpIdUnlocked(id)
  \/ \E id \in OpIds : UpdateLastReplicatedOpIdUnlocked(id)
  \/ \E id \in OpIds : MarkConsensusCommittedUpToUnlocked(id)

SpecLog == InitLeader /\ [][NextLog]_vars

\* Id assignment on a leader: NewIdUnlocked, the round admitted for the new
\* id, its cancellation, and the received watermark that resets next_index_.
NextIds ==
  \/ LockForConfigChange
  \/ SetConfigDoneUnlocked
  \/ IncrementTermUnlocked
  \/ NewIdUnlocked
  \/ \E round \in LeaderRounds : AddPendingOperation(round)
  \/ \E id \in OpIds : CancelPendingOperation(id)
  \/ \E id \in OpIds : UpdateLastReceivedOpIdUnlocked(id)

SpecIds == InitLeader /\ [][NextIds]_vars

\* Pending operations and their commit, through the whole lifecycle.
NextCommit ==
  \/ \E id \in CommitIds : Start(id)
  \/ LockForConfigChange
  \/ SetConfigDoneUnlocked
  \/ LockForShutdown
  \/ Shutdown
  \/ NewIdUnlocked
  \/ \E round \in CommitRounds : AddPendingOperation(round)
  \/ \E id \in CommitIds : MarkConsensusCommittedUpToUnlocked(id)
  \/ \E id \in CommitIds : UpdateCommittedOpIdUnlocked(id)
  \/ \E id \in CommitIds : CancelPendingOperation(id)

SpecCommit == InitLeader /\ [][NextCommit]_vars

\* The shutdown drain: operations admitted and triggered in kRunning, their
\* commit watchers, and the commits that complete up to and during shutdown.
NextDrain ==
  \/ LockForConfigChange
  \/ SetConfigDoneUnlocked
  \/ \E round \in CommitRounds : AddPendingOperation(round)
  \/ \E id \in CommitIds : MarkConsensusCommittedUpToUnlocked(id)
  \/ \E id \in CommitIds : RegisterOnCommitCallback(id)
  \/ \E id \in CommitIds : UpdateCommittedOpId(id)
  \/ LockForShutdown
  \/ CancelPendingTransactions
  \/ WaitForOustandingApplies
  \/ Shutdown

SpecDrain == InitLeader /\ [][NextDrain]_vars

\* The typed lock entry points, in every lifecycle state, role and term.
NextLock ==
  \/ LockForStart
  \/ \E op_type \in {WRITE_OP, CHANGE_CONFIG_OP} : LockForReplicate(op_type)
  \/ LockForCommit
  \/ LockForConfigChange
  \/ LockForElection
  \/ LockForUpdate
  \/ LockForShutdown
  \/ Shutdown
  \/ SetConfigDoneUnlocked
  \/ IncrementTermUnlocked
  \/ \E q \in Quorums : SetPendingQuorumUnlocked(q)
  \/ \E id \in OpIds : Start(id)
  \/ CancelPendingTransactions
  \/ WaitForOustandingApplies

SpecLock == Init /\ [][NextLock]_vars

\* Every operation, with every input.
Next ==
  \/ NextMeta
  \/ NextLog
  \/ NextIds
  \/ NextCommit
  \/ \E round \in RoundsFor(OpIds) : AddPendingOperation(round)
  \/ \E id \in OpIds : UpdateCommittedOpIdUnlocked(id)
  \/ NextDrain
  \/ NextLock
  \/ CountDownOutstandingCommitsIfShuttingDown
  \/ \E id \in OpIds : RegisterOnReplicateCallback(id)
  \/ \E id \in OpIds : RegisterOnCommitCallback(id)
  \/ \E id \in OpIds : UpdateCommittedOpId(id)

Spec == Init /\ [][Next]_vars

\* ------------------------------------------------------------ claims
\* The last call to return was `op`.
Called(op) == ~aborted' /\ call'.op = op

\* C1: the current term never decreases, and set_current_term(new_term) with
\* new_term below the current term returns IllegalState, issues no flush and
\* leaves the in-memory and the persisted metadata as they were.
C1_TermNeverDecreases ==
  [][~aborted' =>
       /\ cmeta_'.current_term >= cmeta_.current_term
       /\ (Called("SetCurrentTermUnlocked") /\ call'.arg < cmeta_.current_term) =>
            /\ status' = IllegalState
            /\ ~flushed'
            /\ cmeta_' = cmeta_
            /\ disk' = disk]_vars

\* A decrease was attempted and refused.
C1_Witness ==
  /\ call.op = "SetCurrentTermUnlocked"
  /\ call.arg < cmeta_.current_term
  /\ status = IllegalState
  /\ ~flushed

\* C2: received_op_id >= replicated_op_id >= last_triggered_apply, in OpId
\* order, in every reachable state.
C2_WatermarkOrder ==
  /\ OpIdCompare(received_op_id_, replicated_op_id_) >= 0
  /\ OpIdCompare(replicated_op_id_, last_triggered_apply_) >= 0

\* C3: every OpId in in_flight_commits is a key of pending_txns.
C3_InFlightArePending == in_flight_commits_ \subseteq DOMAIN pending_txns_

\* C4: no call other than start moves last_triggered_apply backwards, and in
\* state RUNNING mark_consensus_committed_up_to(y) with y at or below
\* last_triggered_apply returns OK, triggers nothing and changes nothing.
C4_CommitWatermarkMonotonic ==
  [][~aborted' =>
       /\ ~Called("Start") =>
            OpIdCompare(last_triggered_apply_', last_triggered_apply_) >= 0
       /\ (/\ Called("MarkConsensusCommittedUpToUnlocked")
           /\ state_ = kRunning
           /\ OpIdCompare(call'.arg, last_triggered_apply_) <= 0) =>
            /\ status' = StatusOK
            /\ triggered' = <<>>
            /\ UNCHANGED <<state_, metaVars, logVars, txnVars>>]_vars

\* A commit advance below the watermark returned while operations were in flight.
C4_Witness ==
  /\ call.op = "MarkConsensusCommittedUpToUnlocked"
  /\ state_ = kRunning
  /\ OpIdCompare(call.arg, last_triggered_apply_) < 0
  /\ status = StatusOK
  /\ in_flight_commits_ # {}

\* C5: in state RUNNING, mark_consensus_committed_up_to(id) with id above
\* last_triggered_apply triggers exactly the pending operations in
\* (last_triggered_apply, id], in ascending OpId order, adds them to
\* in_flight_commits and sets last_triggered_apply to id.
C5_MarkTriggersWholeRange ==
  [][(/\ Called("MarkConsensusCommittedUpToUnlocked")
      /\ state_ = kRunning
      /\ OpIdCompare(call'.arg, last_triggered_apply_) > 0) =>
       /\ triggered' = RangeToCommit(last_triggered_apply_, call'.arg)
       /\ in_flight_commits_' = in_flight_commits_ \cup SeqToSet(triggered')
       /\ last_triggered_apply_' = call'.arg]_vars

\* The same, for the calls that return OK: what C5 says holds of them.
C5_MarkTriggersWholeRangeWhenOK ==
  [][(/\ Called("MarkConsensusCommittedUpToUnlocked")
      /\ state_ = kRunning
      /\ status' = StatusOK
      /\ OpIdCompare(call'.arg, last_triggered_apply_) > 0) =>
       /\ triggered' = RangeToCommit(last_triggered_apply_, call'.arg)
       /\ in_flight_commits_' = in_flight_commits_ \cup SeqToSet(triggered')
       /\ last_triggered_apply_' = call'.arg]_vars

\* C6: within a term new_id never hands out an id twice: the id it returns
\* is above every id of that term whose round is still pending (handed out
\* earlier and not cancelled).
C6_NewIdAbovePendingIds ==
  [][Called("NewIdUnlocked") =>
       \A k \in DOMAIN pending_txns_ :
         k.term = assigned'.term => k.index < assigned'.index]_vars

\* C7: a call whose metadata flush fails returns the flush error and leaves
\* the in-memory term, vote, committed quorum, pending quorum and active
\* quorum snapshot as they were before the call.
C7_FailedFlushLeavesMemoryUnchanged ==
  [][(~aborted' /\ flushed' /\ status' = IOError) =>
       /\ cmeta_' = cmeta_
       /\ pending_quorum_' = pending_quorum_
       /\ active_quorum_state_' = active_quorum_state_]_vars

\* C8: a vote is always one of the current term: every call that changes the
\* term leaves no vote in memory, a successful one leaves the new term and no
\* vote on disk, and only set_voted_for turns has_voted_current_term on.
C8_VoteBelongsToCurrentTerm ==
  [][~aborted' =>
       /\ cmeta_'.current_term # cmeta_.current_term =>
            /\ ~cmeta_'.has_voted_for
            /\ status' = StatusOK =>
                 /\ disk'.current_term = cmeta_'.current_term
                 /\ ~disk'.has_voted_for
       /\ (~cmeta_.has_voted_for /\ cmeta_'.has_voted_for) =>
            Called("SetVotedForCurrentTermUnlocked")]_vars

\* A term increase was flushed and left no vote, in memory or on disk.
C8_Witness ==
  /\ call.op \in {"SetCurrentTermUnlocked", "IncrementTermUnlocked"}
  /\ status = StatusOK
  /\ cmeta_.current_term >= 1
  /\ ~cmeta_.has_voted_for
  /\ ~disk.has_voted_for
  /\ disk.current_term = cmeta_.current_term

\* C9: set_current_term(new_term) with new_term equal to the current term
\* leaves a vote recorded for the current term in place.
C9_SameTermKeepsVote ==
  [][(Called("SetCurrentTermUnlocked") /\ call'.arg = cmeta_.current_term) =>
       /\ cmeta_'.has_voted_for = cmeta_.has_voted_for
       /\ cmeta_'.voted_for = cmeta_.voted_for]_vars

\* C10: while a quorum change is pending, no operation other than the
\* set_committed_quorum that ends it changes the committed quorum, in memory
\* or on disk.
C10_CommittedQuorumFrozenWhilePending ==
  [][(/\ ~aborted'
      /\ IsQuorumChangePendingUnlocked
      /\ call'.op # "SetCommittedQuorumUnlocked") =>
       /\ cmeta_'.committed_quorum = cmeta_.committed_quorum
       /\ disk'.committed_quorum = disk.committed_quorum]_vars

\* The edges of the lifecycle graph.
LifecycleEdges ==
  { <<kInitialized, kRunning>>, <<kInitialized, kChangingConfig>>,
    <<kRunning, kChangingConfig>>, <<kChangingConfig, kRunning>>,
    <<kInitialized, kShuttingDown>>, <<kRunning, kShuttingDown>>,
    <<kChangingConfig, kShuttingDown>>, <<kShuttingDown, kShutDown>> }

\* C11: whatever call runs, the lifecycle state either stays or moves along
\* an edge of the lifecycle graph, and once it is SHUT_DOWN it stays SHUT_DOWN.
C11_LifecycleEdgesOnly ==
  [][~aborted' =>
       /\ state_' # state_ => <<state_, state_'>> \in LifecycleEdges
       /\ state_ = kShutDown => state_' = kShutDown]_vars

\* A shutdown lock was asked of a replica already SHUT_DOWN, and refused.
C11_Witness ==
  /\ state_ = kShutDown
  /\ call.op = "LockForShutdown"
  /\ status = IllegalState

\* C12: a start(initial_id) that returns OK leaves the replica RUNNING, with
\* the three watermarks at initial_id and next_index at initial_id.index + 1.
C12_StartLeavesRunning ==
  [][(Called("Start") /\ status' = StatusOK) =>
       /\ state_' = kRunning
       /\ received_op_id_' = call'.arg
       /\ replicated_op_id_' = call'.arg
       /\ last_triggered_apply_' = call'.arg
       /\ next_index_' = call'.arg.index + 1]_vars

C14_CommitRemovesExactlyOneOp ==
  [][Called("UpdateCommittedOpId") =>
       /\ call'.arg \in in_flight_commits_
       /\ in_flight_commits_' = in_flight_commits_ \ {call'.arg}
       /\ DOMAIN pending_txns_' = DOMAIN pending_txns_ \ {call'.arg}
       /\ \A k \in DOMAIN pending_txns_' : pending_txns_'[k] = pending_txns_[k]
       /\ UNCHANGED <<logVars, replicate_watchers_>>
       /\ fired' = IF call'.arg \in commit_watchers_ THEN <<call'.arg>> ELSE <<>>
       /\ commit_watchers_' = commit_watchers_ \ {call'.arg}]_vars

\* A batch of two was triggered and completed, the higher id first: nothing
\* is pending or in flight, and the last commit fired the last watcher.
C14_Witness ==
  /\ call.op = "UpdateCommittedOpId"
  /\ call.arg = OpIdOfRank(1)
  /\ last_triggered_apply_ = OpIdOfRank(2)
  /\ fired = <<call.arg>>
  /\ commit_watchers_ = {}
  /\ pending_txns_ = << >>
  /\ in_flight_commits_ = {}

\* C15: update_last_replicated_op_id never moves replicated_op_id backwards
\* and update_last_received_op_id never moves received_op_id backwards, in
\* OpId order.
C15_WatermarksNeverDecrease ==
  [][/\ Called("UpdateLastReplicatedOpIdUnlocked") =>
          OpIdCompare(replicated_op_id_', replicated_op_id_) >= 0
     /\ Called("UpdateLastReceivedOpIdUnlocked") =>
          OpIdCompare(received_op_id_', received_op_id_) >= 0]_vars

\* The role this replica has in the quorum in force: the pending quorum if
\* one is set, else the committed one.
RoleInForce ==
  Build(IF IsQuorumChangePendingUnlocked THEN pending_quorum_
        ELSE GetCommittedQuorumUnlocked, peer_uuid_).role

\* The states, roles, terms and op types in which lock_for_replicate hands
\* out the lock.
MayReplicate(op_type) ==
  /\ state_ = kRunning
  /\ \/ RoleInForce = LEADER
     \/ /\ RoleInForce = CANDIDATE
        /\ GetCurrentTermUnlocked = 0
        /\ op_type = CHANGE_CONFIG_OP

\* C16: lock_for_replicate(msg) returns OK (the lock) exactly when the state
\* is RUNNING and the role in force is LEADER, or CANDIDATE with term 0 and
\* msg a CHANGE_CONFIG_OP; in every other case it returns IllegalState; it
\* changes no state in either case.
C16_LockForReplicateAdmission ==
  [][\A op_type \in {WRITE_OP, CHANGE_CONFIG_OP} :
       LockForReplicate(op_type) =>
         /\ ~aborted'
         /\ status' = IF MayReplicate(op_type) THEN StatusOK ELSE IllegalState
         /\ UNCHANGED <<state_, metaVars, logVars, txnVars, watchVars>>]_vars

\* The call returned an error to its caller and left the lifecycle state alone.
Refused == ~aborted' /\ status' # StatusOK /\ state_' = state_

\* C17: every typed lock entry point called in a state other than the ones
\* it requires returns an error, hands out no lock and leaves the lifecycle
\* state unchanged; none of them ends the process.
C17_LockEntryPointsReturnErrors ==
  [][/\ (LockForStart /\ state_ # kInitialized) => Refused
     /\ ((\E op_type \in {WRITE_OP, CHANGE_CONFIG_OP} : LockForReplicate(op_type))
           /\ state_ # kRunning) => Refused
     /\ (LockForCommit /\ state_ \notin {kRunning, kShuttingDown}) => Refused
     /\ (LockForConfigChange /\ state_ \notin {kInitialized, kRunning}) => Refused
     /\ (LockForElection /\ state_ \notin {kInitialized, kRunning}) => Refused
     /\ (LockForUpdate /\ state_ # kRunning) => Refused
     /\ (LockForShutdown /\ state_ = kShutDown) => Refused]_vars

\* C18: lock_for_shutdown from INITIALIZED, RUNNING or CHANGING_CONFIG
\* returns OK, moves to SHUTTING_DOWN and arms the latch with
\* |in_flight_commits|; called again in SHUTTING_DOWN it returns OK and
\* changes neither the state nor the latch; in SHUT_DOWN it returns
\* IllegalState and changes nothing.
C18_LockForShutdownIdempotent ==
  [][Called("LockForShutdown") =>
       /\ state_ \in {kInitialized, kRunning, kChangingConfig} =>
            /\ status' = StatusOK
            /\ state_' = kShuttingDown
            /\ in_flight_applies_latch_' = Cardinality(in_flight_commits_)
       /\ state_ = kShuttingDown =>
            /\ status' = StatusOK
            /\ UNCHANGED <<state_, in_flight_applies_latch_>>
       /\ state_ = kShutDown =>
            /\ status' = IllegalState
            /\ UNCHANGED <<state_, in_flight_applies_latch_>>
       /\ UNCHANGED <<metaVars, logVars, pending_txns_, in_flight_commits_, watchVars>>]_vars

\* A second lock_for_shutdown returned OK after an apply armed in the latch
\* had completed: the latch was not armed again.
C18_Witness ==
  /\ call.op = "LockForShutdown"
  /\ status = StatusOK
  /\ state_ = kShuttingDown
  /\ in_flight_applies_latch_ > Cardinality(in_flight_commits_)

\* C19: add_pending(round) returns OK and inserts the round at round.id when
\* the state is RUNNING or the round is a CHANGE_CONFIG_OP; otherwise it
\* returns IllegalState and leaves pending_txns as it was; either way every
\* entry already in pending_txns keeps its round, and nothing else changes.
C19_AddPendingAdmission ==
  [][Called("AddPendingOperation") =>
       /\ IF state_ = kRunning \/ call'.arg.op_type = CHANGE_CONFIG_OP
          THEN /\ status' = StatusOK
               /\ call'.arg.id \notin DOMAIN pending_txns_
               /\ DOMAIN pending_txns_' = DOMAIN pending_txns_ \cup {call'.arg.id}
               /\ pending_txns_'[call'.arg.id] = call'.arg
          ELSE /\ status' = IllegalState
               /\ pending_txns_' = pending_txns_
       /\ \A k \in DOMAIN pending_txns_ :
            k \in DOMAIN pending_txns_' /\ pending_txns_'[k] = pending_txns_[k]
       /\ UNCHANGED <<state_, metaVars, logVars, in_flight_commits_,
                      in_flight_applies_latch_, watchVars>>]_vars

\* A config change was admitted as second pending round outside RUNNING.
C19_Witness ==
  /\ call.op = "AddPendingOperation"
  /\ status = StatusOK
  /\ state_ # kRunning
  /\ call.arg.op_type = CHANGE_CONFIG_OP
  /\ Cardinality(DOMAIN pending_txns_) = 2

C21_NoWatcherAfterCommit ==
  [][(/\ call.op = "UpdateCommittedOpId"
      /\ Called("RegisterOnCommitCallback")
      /\ call'.arg = call.arg) =>
       /\ status' = AlreadyPresent
       /\ commit_watchers_' = commit_watchers_]_vars

\* C26: the active quorum snapshot is QuorumState::Build of the pending
\* quorum if one is pending and of the committed quorum otherwise.
C26_ActiveSnapshotIsBuilt ==
  active_quorum_state_ =
    Build(IF IsQuorumChangePendingUnlocked THEN pending_quorum_
          ELSE GetCommittedQuorumUnlocked, peer_uuid_)

\* C27: every pending operation whose id is at or below last_triggered_apply
\* is in in_flight_commits.
C27_NoPendingBehindWatermark ==
  \A k \in DOMAIN pending_txns_ :
    OpIdCompare(k, last_triggered_apply_) <= 0 => k \in in_flight_commits_

\* C28: a mark_consensus_committed_up_to that returns an error leaves
\* last_triggered_apply and in_flight_commits as they were before the call.
C28_MarkAllOrNothing ==
  [][(Called("MarkConsensusCommittedUpToUnlocked") /\ status' # StatusOK) =>
       UNCHANGED <<last_triggered_apply_, in_flight_commits_>>]_vars


\* C25: in a tracker of majority m over the voting set V, after acks in which
\* no peer acks twice, IsDone holds exactly when at least m peers of V have
\* acked, an ack from outside V raises replicated_count_ only, the latch never
\* goes below zero, IsAllDone holds exactly when replicated_count_ has reached
\* total_peers_count_, and IsDone once true stays true.
C25_MajorityTracker ==
  /\ [](~aborted =>
         /\ IsDone <=> Cardinality(acked \cap tracker.voting_peers_) >= tracker.majority_
         /\ tracker.completion_latch_ >= 0
         /\ tracker.replicated_count_ = Cardinality(acked)
         /\ IsAllDone <=> Cardinality(acked) >= tracker.total_peers_count_)
  /\ [][(IsDone /\ ~aborted') => IsDone']_vars

\* A majority of two reached by two voters after a non-voter acked too, and
\* one more voter acked after that.
C25_Witness ==
  /\ ~aborted
  /\ tracker.majority_ = 2
  /\ Cardinality(acked \cap tracker.voting_peers_) = 3
  /\ acked \ tracker.voting_peers_ # {}
  /\ IsDone
  /\ IsAllDone


\* The transaction state as the participant's callers see it: a txn_id with
\* no entry, or with one that never left kInitializing, has none.
TxnState(txn) == IF txn.state_ = kInitializing THEN kNone ELSE txn.state_

\* The transitions of the transaction state machine.
LegalFrom(type, s) ==
  \/ type = BEGIN_TXN /\ s = kNone
  \/ type = BEGIN_COMMIT /\ s = kOpen
  \/ type = FINALIZE_COMMIT /\ s = kCommitInProgress
  \/ type = ABORT_TXN /\ s \in {kOpen, kCommitInProgress}

Target(type) ==
  CASE type = BEGIN_TXN -> kOpen
    [] type = BEGIN_COMMIT -> kCommitInProgress
    [] type = FINALIZE_COMMIT -> kCommitted
    [] type = ABORT_TXN -> kAborted
    [] type = UNKNOWN -> kNone

\* The step is the Prepare, the Apply of op o.
Prepares(o) == ops[o].phase = "acquiring" /\ ops'[o].phase \in {"prepared", "failed"}
Applies(o) == ops[o].phase = "started" /\ ops'[o].phase = "applied"

\* C22: the state of a transaction changes only in the Apply of an op on its
\* txn_id whose type is a legal transition from that state, and to the target
\* of that type; an op whose type is no legal transition from the state it
\* finds fails in Prepare, and the state stays as it is from there until the
\* op's Finish.
C22_LegalTransitionsOnly ==
  [][~aborted' =>
       \A t \in DOMAIN txns :
         /\ TxnState(txns'[t]) # TxnState(txns[t]) =>
              \E o \in OpSlots :
                /\ Applies(o)
                /\ ops[o].txn_id = t
                /\ LegalFrom(ops[o].type, TxnState(txns[t]))
                /\ TxnState(txns'[t]) = Target(ops[o].type)
         /\ \A o \in OpSlots :
              ops[o].txn_id = t =>
                /\ (Prepares(o) /\ ~LegalFrom(ops[o].type, TxnState(txns[t]))) =>
                      /\ ops'[o].phase = "failed"
                      /\ ops'[o].status # StatusOK
                /\ (ops[o].phase \in {"failed", "clearing"} /\ ops'[o] # ops[o]) =>
                      TxnState(txns'[t]) = TxnState(txns[t])
                /\ ops[o].phase = "failed" => TxnState(txns'[t]) = TxnState(txns[t])]_vars

\* A FINALIZE_COMMIT has failed Prepare on an open transaction and holds its
\* lock still, and a transaction has been committed or aborted.
C22_Witness ==
  /\ ~aborted
  /\ \E o \in OpSlots :
       /\ ops[o].phase = "failed"
       /\ ops[o].type = FINALIZE_COMMIT
       /\ txns[ops[o].txn_id].state_ = kOpen
  /\ \E t \in DOMAIN txns : txns[t].state_ \in {kCommitted, kAborted}

\* The phases in which an op holds the write lock of its transaction.
LockedPhases == {"prepared", "failed", "started", "applied"}

\* C23: no two ops hold the write lock of one txn_id; an op holds it from
\* its Prepare (validation included) through Start and Apply and no longer
\* once Finish has run, whatever the outcome; and an op waiting for the lock
\* gets it.
C23_TxnLockSerializes ==
  /\ [](~aborted =>
         /\ \A t \in DOMAIN txns :
              Cardinality({o \in OpSlots : ops[o].txn_id = t /\ ops[o].txn_lock_}) <= 1
         /\ \A o \in OpSlots : ops[o].txn_lock_ <=> ops[o].phase \in LockedPhases)
  /\ \A o \in OpSlots : (ops[o].phase = "acquiring") ~> (ops[o].txn_lock_ \/ aborted)

\* One op holds the lock, a second waits for it on the same txn_id, and a
\* third has finished ABORTED.
C23_Witness ==
  /\ ~aborted
  /\ \E a, b, c \in OpSlots :
       /\ ops[a].phase = "finished" /\ ops[a].result = ABORTED
       /\ ops[b].phase = "started" /\ ops[b].txn_lock_
       /\ ops[c].phase = "acquiring" /\ ops[c].txn_id = ops[b].txn_id

\* The transactions that hold the MVCC op m as their commit op.
TxnsHolding(m) == {t \in DOMAIN txns : txns[t].commit_op_ = m}

====
